---------------------------- MODULE Spec2Model ----------------------------
(***************************************************************************)
(* Model of spsdk/apps/nxpkeygen.py: one invocation of the key generator   *)
(* command line tool.  Strings (key-type tokens, paths) are sequences of   *)
(* one-character strings so that lower(), strip(), replace(), the "in"     *)
(* substring test, int() and os.path.splitext() are computed the way the   *)
(* Python code computes them.                                              *)
(***************************************************************************)
EXTENDS Integers, Sequences, FiniteSets, TLC

VARIABLES
    key_type_opt,   \* -k/--key-type as typed: None, or Some(token)
    path,           \* PATH argument
    password,       \* --password as typed: None, or Some(string)
    force,          \* --force flag
    fs0,            \* the files on disk when the invocation starts
    fs,             \* the files on disk now: path -> content
    dir_exists,     \* whether the directory of PATH exists
    pc,             \* position in main(); "Done" and "Failed" are terminal
    key_type,       \* main's parameter after click's conversion
    key_param,      \* local of main, line 103
    is_rsa,         \* local of main, line 104
    pub_key_path,   \* local of main, line 108
    priv_key,       \* priv_key_rsa / priv_key_ec
    pub_key,        \* pub_key_rsa / pub_key_ec
    log,            \* the steps executed so far, in order
    saves,          \* the calls of the save routines made so far
    error,          \* the error that ended the invocation, "" if none
    exit_code       \* the process exit status, -1 while running

vars == <<key_type_opt, path, password, force, fs0, fs, dir_exists, pc,
          key_type, key_param, is_rsa, pub_key_path, priv_key, pub_key,
          log, saves, error, exit_code>>

----------------------------------------------------------------------------
(* Optional values: Python's None against a present value.                 *)

None == <<>>

Some(x) == <<x>>

----------------------------------------------------------------------------
(* Python string operations on sequences of characters.                    *)

Uppers == <<"A","B","C","D","E","F","G","H","I","J","K","L","M",
            "N","O","P","Q","R","S","T","U","V","W","X","Y","Z">>

Lowers == <<"a","b","c","d","e","f","g","h","i","j","k","l","m",
            "n","o","p","q","r","s","t","u","v","w","x","y","z">>

\* each upper-case letter's lower-case form
ToLower ==
    [c \in {Uppers[i] : i \in DOMAIN Uppers} |->
        Lowers[CHOOSE i \in DOMAIN Uppers : Uppers[i] = c]]

\* each lower-case letter's upper-case form
ToUpper ==
    [c \in {Lowers[i] : i \in DOMAIN Lowers} |->
        Uppers[CHOOSE i \in DOMAIN Lowers : Lowers[i] = c]]

LowerChar(c) == IF c \in DOMAIN ToLower THEN ToLower[c] ELSE c

UpperChar(c) == IF c \in DOMAIN ToUpper THEN ToUpper[c] ELSE c

\* str.lower()
Lower(s) == [i \in 1..Len(s) |-> LowerChar(s[i])]

\* str.upper(), used only to build the inputs
Upper(s) == [i \in 1..Len(s) |-> UpperChar(s[i])]

Whitespace == {" ", "\t", "\n"}

\* str.strip(): leading and trailing whitespace removed
Strip(s) ==
    LET nonws == {i \in 1..Len(s) : s[i] \notin Whitespace}
    IN  IF nonws = {} THEN <<>>
        ELSE LET lo == CHOOSE i \in nonws : \A j \in nonws : i <= j
                 hi == CHOOSE i \in nonws : \A j \in nonws : j <= i
             IN  SubSeq(s, lo, hi)

\* whether sub occurs in s at position i
OccursAt(s, sub, i) ==
    /\ i + Len(sub) - 1 <= Len(s)
    /\ \A j \in 1..Len(sub) : s[i + j - 1] = sub[j]

\* the "in" operator on strings: sub in s
Contains(s, sub) == \E i \in 1..(Len(s) + 1) : OccursAt(s, sub, i)

RECURSIVE Remove(_, _)
\* str.replace(old, ""): the non-overlapping occurrences of old, left to
\* right, removed (old is not empty)
Remove(s, old) ==
    IF s = <<>> THEN <<>>
    ELSE IF OccursAt(s, old, 1)
         THEN Remove(SubSeq(s, Len(old) + 1, Len(s)), old)
         ELSE <<s[1]>> \o Remove(Tail(s), old)

Digits == <<"0","1","2","3","4","5","6","7","8","9">>

IsDigit(c) == \E i \in DOMAIN Digits : Digits[i] = c

DigitVal(c) == (CHOOSE i \in DOMAIN Digits : Digits[i] = c) - 1

RECURSIVE DecimalValue(_)
DecimalValue(s) ==
    IF s = <<>> THEN 0
    ELSE DecimalValue(SubSeq(s, 1, Len(s) - 1)) * 10 + DigitVal(s[Len(s)])

\* int(s) on a string of decimal digits; None where int() raises ValueError
ParseInt(s) ==
    IF s # <<>> /\ \A i \in 1..Len(s) : IsDigit(s[i])
    THEN Some(DecimalValue(s))
    ELSE None

----------------------------------------------------------------------------
(* os.path on POSIX paths.                                                 *)

\* str.rfind(c): the last index of c in p, 0 when there is none (Python's -1)
RFind(p, c) ==
    IF \E i \in 1..Len(p) : p[i] = c
    THEN CHOOSE i \in 1..Len(p) : p[i] = c /\ \A j \in (i+1)..Len(p) : p[j] # c
    ELSE 0

\* os.path.splitext(p): <<root, ext>>.  The extension starts at the last dot
\* of the last path component, unless only dots precede it there.
SplitExt(p) ==
    LET sepIndex == RFind(p, "/")
        dotIndex == RFind(p, ".")
    IN  IF /\ dotIndex > sepIndex
           /\ \E i \in (sepIndex + 1)..(dotIndex - 1) : p[i] # "."
        THEN <<SubSeq(p, 1, dotIndex - 1), SubSeq(p, dotIndex, Len(p))>>
        ELSE <<p, <<>> >>

\* os.path.dirname(p), for paths without repeated or trailing separators
Dirname(p) ==
    LET sepIndex == RFind(p, "/")
    IN  IF sepIndex <= 1 THEN SubSeq(p, 1, sepIndex)
        ELSE SubSeq(p, 1, sepIndex - 1)

\* os.path.basename(p)
Basename(p) == SubSeq(p, RFind(p, "/") + 1, Len(p))


----------------------------------------------------------------------------
(* Bounds and inputs.                                                      *)

\* the longest file-name stem of the PATH arguments tried
MaxStemLen == 2

Dirs == { <<>>, <<"d", ".", "x", "/">> }

\* file-name stems over the characters k and ., with at least one k
Stems ==
    { s \in UNION { [1..n -> {"k", "."}] : n \in 1..MaxStemLen } :
        \E i \in DOMAIN s : s[i] = "k" }

Exts == { <<>>, <<".", "p", "e", "m">>, <<".", "p", "u", "b">> }

Paths == { d \o s \o e : d \in Dirs, s \in Stems, e \in Exts }

Passwords == { None, Some(""), Some("pw") }

\* the file contents found on disk before the invocation
OldContent == [part |-> "old", alg |-> "", bits |-> 0, curve |-> <<>>,
               password |-> None]

\* what a write that failed half way leaves behind
PartialContent == [part |-> "partial", alg |-> "", bits |-> 0, curve |-> <<>>,
                   password |-> None]

\* a failed write that left the file as it was
NothingWritten == [part |-> "none", alg |-> "", bits |-> 0, curve |-> <<>>,
                   password |-> None]

NoKey == [part |-> "none", alg |-> "", bits |-> 0, curve |-> <<>>]

----------------------------------------------------------------------------
(* Key-type catalog.                                                       *)

Rsa2048 == <<"r","s","a","2","0","4","8">>

Rsa3072 == <<"r","s","a","3","0","7","2">>

Rsa4096 == <<"r","s","a","4","0","9","6">>

Secp256r1 == <<"s","e","c","p","2","5","6","r","1">>

Secp384r1 == <<"s","e","c","p","3","8","4","r","1">>

BrainpoolP256r1 == <<"b","r","a","i","n","p","o","o","l","P","2","5","6","r","1">>

\* ec._CURVE_TYPES.keys(): names the curve registry holds (three of them)
CurveTypes == << Secp256r1, Secp384r1, BrainpoolP256r1 >>

\* get_list_of_supported_keys()
SupportedKeys == << Rsa2048, Rsa3072, Rsa4096 >> \o CurveTypes

Range(f) == { f[i] : i \in DOMAIN f }

\* the option's default, "RSA2048"
DefaultKeyType == <<"R","S","A","2","0","4","8">>

\* tokens outside the advertised set
InvalidTokens ==
    { <<"r","s","a","1","0","2","4">>, <<"r","s","a","9","9","9","9">>,
      <<>>, <<"e","d","2","5","5","1","9">> }

Pads == { <<>>, <<" ">> }

\* the tokens tried: advertised ones, in their own and in upper case, bare
\* and padded with blanks; and some outside the set
Tokens ==
    { l \o v \o t : l \in Pads, t \in Pads,
                    v \in Range(SupportedKeys)
                          \cup { Upper(k) : k \in Range(SupportedKeys) } }
    \cup InvalidTokens

\* ChoiceConvert without the validation: every value is let through
ChoiceConvertAny(choices, value) == Some(value)

\* ChoiceConvert comparing case-sensitively
ChoiceConvertExact(choices, value) ==
    IF \E i \in DOMAIN choices : choices[i] = value THEN Some(value) ELSE None

\* click.Choice(choices, case_sensitive=False).convert(value): the choice
\* whose case-folded form equals the case-folded value, None when there is
\* none (a usage error).  The value is not stripped.
ChoiceConvert(choices, value) ==
    LET hits == { i \in DOMAIN choices : Lower(choices[i]) = Lower(value) }
    IN  IF hits = {} THEN None
        ELSE Some(choices[CHOOSE i \in hits : \A j \in hits : i <= j])

\* IsRsa testing for the letter r alone
IsRsaLoose(param) == Contains(param, <<"r">>)

\* "rsa" in key_param
IsRsa(param) == Contains(param, <<"r","s","a">>)

\* int(key_param.replace("rsa", ""))
RsaKeySize(param) == ParseInt(Remove(param, <<"r","s","a">>))

\* PasswordArg dropping the password
PasswordArgDropped(pw) == None

\* password if password else None
PasswordArg(pw) == IF pw # None /\ pw[1] # "" THEN pw ELSE None

\* os.path.splitext(path)[0] + ".pub"
PubKeyPath(p) == SplitExt(p)[1] \o <<".", "p", "u", "b">>

----------------------------------------------------------------------------
(* Collaborators: spsdk.apps.utils and spsdk.crypto.                       *)

\* check_file_exists(path, force_overwrite): TRUE when it raises
FileExistsError(files, p, force_overwrite) ==
    ~force_overwrite /\ p \in DOMAIN files

\* check_destination_dir(path, create_folder): TRUE when it raises
InvalidDestination(exists, create_folder) == ~exists /\ ~create_folder

\* the curve lookup of generate_ecc_private_key: the registry's name for
\* curve_name, None when the registry has no such curve
CurveLookup(curve_name) ==
    LET hits == { i \in DOMAIN CurveTypes :
                    Lower(CurveTypes[i]) = Lower(curve_name) }
    IN  IF hits = {} THEN None
        ELSE Some(CurveTypes[CHOOSE i \in hits : \A j \in hits : i <= j])

\* generate_rsa_private_key(key_size)
RsaPrivateKey(key_size) ==
    [part |-> "private", alg |-> "RSA", bits |-> key_size, curve |-> <<>>]

\* generate_ecc_private_key(curve_name), for a curve of the registry
EccPrivateKey(curve) ==
    [part |-> "private", alg |-> "EC", bits |-> 0, curve |-> curve]

\* generate_rsa_public_key / generate_ecc_public_key
PublicKeyOf(key) == [key EXCEPT !.part = "public"]

\* what a save routine writes: the key, encrypted under pw when pw is given
Serialized(key, pw) ==
    [part |-> key.part, alg |-> key.alg, bits |-> key.bits,
     curve |-> key.curve, password |-> pw]

\* the file system after the file at p is written with content c
WriteFile(files, p, c) ==
    [q \in DOMAIN files \cup {p} |-> IF q = p THEN c ELSE files[q]]

\* the exit status the top-level boundary gives an error: click's usage
\* error for a rejected option value, a plain failure otherwise
ExitCodeOf(err) == IF err = "UnsupportedKeyType" THEN 2 ELSE 1

----------------------------------------------------------------------------
(* One invocation.                                                         *)

\* the program order of main()'s steps
Steps == << "parse", "normalize", "check_dir", "check_priv", "derive_pub",
            "check_pub", "gen_priv", "gen_pub", "save_priv", "save_pub",
            "return" >>

InitialFiles(p, exists) ==
    { [q \in S |-> OldContent] :
        S \in IF exists THEN SUBSET {p, PubKeyPath(p)} ELSE { {} } }

Init ==
    /\ key_type_opt \in {None} \cup { Some(t) : t \in Tokens }
    /\ path \in Paths
    /\ password \in Passwords
    /\ force \in BOOLEAN
    /\ dir_exists \in IF Dirname(path) = <<>> THEN {TRUE} ELSE BOOLEAN
    /\ fs0 \in InitialFiles(path, dir_exists)
    /\ fs = fs0
    /\ pc = "parse"
    /\ key_type = <<>>
    /\ key_param = <<>>
    /\ is_rsa = FALSE
    /\ pub_key_path = <<>>
    /\ priv_key = NoKey
    /\ pub_key = NoKey
    /\ log = <<>>
    /\ saves = <<>>
    /\ error = ""
    /\ exit_code = -1

\* an exception leaves main(): the top-level boundary reports it and exits
Raise(err) ==
    /\ pc' = "Failed"
    /\ error' = err
    /\ exit_code' = ExitCodeOf(err)

\* the step at pc completes and control moves on to the step next
Goto(next) ==
    /\ pc' = next
    /\ UNCHANGED <<error, exit_code>>

\* click converts the --key-type value (the default when it is not given)
ParseArgs ==
    /\ pc = "parse"
    /\ log' = Append(log, "parse")
    /\ LET value == IF key_type_opt = None THEN DefaultKeyType
                    ELSE key_type_opt[1]
           choice == ChoiceConvert(SupportedKeys, value)
       IN  IF choice = None
           THEN Raise("UnsupportedKeyType") /\ UNCHANGED key_type
           ELSE Goto("normalize") /\ key_type' = choice[1]
    /\ UNCHANGED <<key_type_opt, path, password, force, fs0, fs, dir_exists,
                   key_param, is_rsa, pub_key_path, priv_key, pub_key, saves>>

\* key_param = key_type.lower().strip(); is_rsa = "rsa" in key_param
Normalize ==
    /\ pc = "normalize"
    /\ log' = Append(log, "normalize")
    /\ key_param' = Strip(Lower(key_type))
    /\ is_rsa' = IsRsa(key_param')
    /\ Goto("check_dir")
    /\ UNCHANGED <<key_type_opt, path, password, force, fs0, fs, dir_exists,
                   key_type, pub_key_path, priv_key, pub_key, saves>>

\* check_destination_dir(path, force)
CheckDestinationDir ==
    /\ pc = "check_dir"
    /\ log' = Append(log, "check_dir")
    /\ IF InvalidDestination(dir_exists, force)
       THEN Raise("InvalidDestination") /\ UNCHANGED dir_exists
       ELSE Goto("check_priv") /\ dir_exists' = TRUE
    /\ UNCHANGED <<key_type_opt, path, password, force, fs0, fs, key_type,
                   key_param, is_rsa, pub_key_path, priv_key, pub_key, saves>>

\* check_file_exists(path, force)
CheckPrivateExists ==
    /\ pc = "check_priv"
    /\ log' = Append(log, "check_priv")
    /\ IF FileExistsError(fs, path, force)
       THEN Raise("FileExists")
       ELSE Goto("derive_pub")
    /\ UNCHANGED <<key_type_opt, path, password, force, fs0, fs, dir_exists,
                   key_type, key_param, is_rsa, pub_key_path, priv_key,
                   pub_key, saves>>

\* pub_key_path = os.path.splitext(path)[0] + ".pub"
DerivePubKeyPath ==
    /\ pc = "derive_pub"
    /\ log' = Append(log, "derive_pub")
    /\ pub_key_path' = PubKeyPath(path)
    /\ Goto("check_pub")
    /\ UNCHANGED <<key_type_opt, path, password, force, fs0, fs, dir_exists,
                   key_type, key_param, is_rsa, priv_key, pub_key, saves>>

\* CheckPublicExists with the check left out
CheckPublicExistsSkipped ==
    /\ pc = "check_pub"
    /\ log' = Append(log, "check_pub")
    /\ Goto("gen_priv")
    /\ UNCHANGED <<key_type_opt, path, password, force, fs0, fs, dir_exists,
                   key_type, key_param, is_rsa, pub_key_path, priv_key,
                   pub_key, saves>>

\* check_file_exists(pub_key_path, force)
CheckPublicExists ==
    /\ pc = "check_pub"
    /\ log' = Append(log, "check_pub")
    /\ IF FileExistsError(fs, pub_key_path, force)
       THEN Raise("FileExists")
       ELSE Goto("gen_priv")
    /\ UNCHANGED <<key_type_opt, path, password, force, fs0, fs, dir_exists,
                   key_type, key_param, is_rsa, pub_key_path, priv_key,
                   pub_key, saves>>

\* generate_rsa_private_key(key_size=int(key_param.replace("rsa", ""))), or
\* generate_ecc_private_key(curve_name=key_param)
GeneratePrivateKey ==
    /\ pc = "gen_priv"
    /\ log' = Append(log, "gen_priv")
    /\ IF is_rsa
       THEN LET size == RsaKeySize(key_param)
            IN  IF size = None
                THEN Raise("ValueError") /\ UNCHANGED priv_key
                ELSE Goto("gen_pub") /\ priv_key' = RsaPrivateKey(size[1])
       ELSE LET curve == CurveLookup(key_param)
            IN  IF curve = None
                THEN Raise("CollaboratorFailure") /\ UNCHANGED priv_key
                ELSE Goto("gen_pub") /\ priv_key' = EccPrivateKey(curve[1])
    /\ UNCHANGED <<key_type_opt, path, password, force, fs0, fs, dir_exists,
                   key_type, key_param, is_rsa, pub_key_path, pub_key, saves>>

\* generate_rsa_public_key(priv_key_rsa) / generate_ecc_public_key(priv_key_ec)
GeneratePublicKey ==
    /\ pc = "gen_pub"
    /\ log' = Append(log, "gen_pub")
    /\ pub_key' = PublicKeyOf(priv_key)
    /\ Goto("save_priv")
    /\ UNCHANGED <<key_type_opt, path, password, force, fs0, fs, dir_exists,
                   key_type, key_param, is_rsa, pub_key_path, priv_key, saves>>

\* one call of a save routine: it writes the file, or fails with the file
\* untouched, or fails leaving a partly written file
Save(step, next, key, file, pw) ==
    /\ log' = Append(log, step)
    /\ \/ /\ fs' = WriteFile(fs, file, Serialized(key, pw))
          /\ saves' = Append(saves, [step |-> step, file |-> file,
                                      password |-> pw, ok |-> TRUE,
                                      written |-> Serialized(key, pw)])
          /\ Goto(next)
       \/ /\ fs' = fs
          /\ saves' = Append(saves, [step |-> step, file |-> file,
                                      password |-> pw, ok |-> FALSE,
                                      written |-> NothingWritten])
          /\ Raise("PersistenceFailed")
       \/ /\ fs' = WriteFile(fs, file, PartialContent)
          /\ saves' = Append(saves, [step |-> step, file |-> file,
                                      password |-> pw, ok |-> FALSE,
                                      written |-> PartialContent])
          /\ Raise("PersistenceFailed")

\* SavePrivateKey saving the public key first
SavePrivateKeySwapped ==
    /\ pc = "save_priv"
    /\ Save("save_pub", "save_pub", pub_key, pub_key_path, None)
    /\ UNCHANGED <<key_type_opt, path, password, force, fs0, dir_exists,
                   key_type, key_param, is_rsa, pub_key_path, priv_key,
                   pub_key>>

\* save_rsa_private_key / save_ecc_private_key
\*     (priv_key, path, password if password else None)
SavePrivateKey ==
    /\ pc = "save_priv"
    /\ Save("save_priv", "save_pub", priv_key, path, PasswordArg(password))
    /\ UNCHANGED <<key_type_opt, path, password, force, fs0, dir_exists,
                   key_type, key_param, is_rsa, pub_key_path, priv_key,
                   pub_key>>

\* SavePublicKey handing the password on to the public-key save
SavePublicKeyEncrypted ==
    /\ pc = "save_pub"
    /\ Save("save_pub", "return", pub_key, pub_key_path, PasswordArg(password))
    /\ UNCHANGED <<key_type_opt, path, password, force, fs0, dir_exists,
                   key_type, key_param, is_rsa, pub_key_path, priv_key,
                   pub_key>>

\* save_rsa_public_key / save_ecc_public_key (pub_key, pub_key_path)
SavePublicKey ==
    /\ pc = "save_pub"
    /\ Save("save_pub", "return", pub_key, pub_key_path, None)
    /\ UNCHANGED <<key_type_opt, path, password, force, fs0, dir_exists,
                   key_type, key_param, is_rsa, pub_key_path, priv_key,
                   pub_key>>

\* return 0, and sys.exit(main())
Return ==
    /\ pc = "return"
    /\ log' = Append(log, "return")
    /\ pc' = "Done"
    /\ exit_code' = 0
    /\ UNCHANGED <<key_type_opt, path, password, force, fs0, fs, dir_exists,
                   key_type, key_param, is_rsa, pub_key_path, priv_key,
                   pub_key, saves, error>>

Next ==
    \/ ParseArgs
    \/ Normalize
    \/ CheckDestinationDir
    \/ CheckPrivateExists
    \/ DerivePubKeyPath
    \/ CheckPublicExists
    \/ GeneratePrivateKey
    \/ GeneratePublicKey
    \/ SavePrivateKey
    \/ SavePublicKey
    \/ Return

Spec == Init /\ [][Next]_vars

----------------------------------------------------------------------------
(* Vocabulary of the properties.                                           *)

\* the key-type token the invocation was given
TypedToken == IF key_type_opt = None THEN DefaultKeyType ELSE key_type_opt[1]

\* the advertised tokens, each with its lower-case form
LoweredKeys == { <<k, Lower(k)>> : k \in Range(SupportedKeys) }

\* the advertised tokens that equal the typed token up to letter case
SameUpToCase ==
    LET typed == Lower(TypedToken)
    IN  { e[1] : e \in { f \in LoweredKeys : f[2] = typed } }

\* the advertised tokens that equal the typed token up to letter case and
\* leading and trailing whitespace
SameUpToCaseAndBlanks ==
    LET typed == Strip(Lower(TypedToken))
    IN  { e[1] : e \in { f \in LoweredKeys : f[2] = typed } }

Terminal == pc \in {"Done", "Failed"}

\* the private key each advertised token stands for
ExpectedKey(k) ==
    IF k = Rsa2048 THEN RsaPrivateKey(2048)
    ELSE IF k = Rsa3072 THEN RsaPrivateKey(3072)
    ELSE IF k = Rsa4096 THEN RsaPrivateKey(4096)
    ELSE EccPrivateKey(k)

IsPrefix(s, t) == Len(s) <= Len(t) /\ \A i \in 1..Len(s) : s[i] = t[i]

\* the calls of the private-key / public-key save routine made so far
PrivateSaves == { i \in DOMAIN saves : saves[i].step = "save_priv" }

PublicSaves == { i \in DOMAIN saves : saves[i].step = "save_pub" }

----------------------------------------------------------------------------
(* Properties.                                                             *)

\* C1: without --force, when the private-key path or the derived public-key
\* path already exists, an invocation whose key type was accepted never
\* generates or saves anything, leaves both files as they were, and can
\* only end in the FileExists failure.
C1_OverwriteSafety ==
    (/\ SameUpToCase # {}
     /\ ~force
     /\ (path \in DOMAIN fs0 \/ PubKeyPath(path) \in DOMAIN fs0))
    => /\ fs = fs0
       /\ saves = <<>>
       /\ priv_key = NoKey
       /\ pc \in {"parse", "normalize", "check_dir", "check_priv",
                  "derive_pub", "check_pub", "Failed"}
       /\ pc = "Failed" => error = "FileExists" /\ exit_code > 0

\* C1 witness: only the public-key file existed, and the invocation ended
\* in FileExists with the disk untouched.
C1_Witness ==
    /\ pc = "Failed"
    /\ error = "FileExists"
    /\ ~force
    /\ path \notin DOMAIN fs0
    /\ pub_key_path \in DOMAIN fs0
    /\ fs = fs0

\* C2 (as claimed): once derived, the public-key path differs from the
\* private-key path and has the same directory and the same base name.
C2_PathsDistinct ==
    pub_key_path # <<>>
    => /\ pub_key_path # path
       /\ Dirname(pub_key_path) = Dirname(path)
       /\ SplitExt(Basename(pub_key_path))[1] = SplitExt(Basename(path))[1]

C6_UnsupportedRejected ==
    SameUpToCase = {}
    => /\ pc \in {"parse", "Failed"}
       /\ fs = fs0
       /\ saves = <<>>
       /\ priv_key = NoKey /\ pub_key = NoKey
       /\ pc = "Failed" => /\ error = "UnsupportedKeyType"
                           /\ exit_code > 0
                           /\ log = <<"parse">>

\* C6 witness: the token rsa9999 was rejected.
C6_Witness ==
    /\ key_type_opt = Some(<<"r","s","a","9","9","9","9">>)
    /\ pc = "Failed"
    /\ error = "UnsupportedKeyType"
    /\ fs = fs0

\* C7 (as claimed): with --force, whatever files existed, an invocation
\* whose key type was accepted and in which no write failed ends
\* successfully with the private-key path holding the new private key and
\* the derived public-key path holding the new public key.
C7_ForceOverwrites ==
    (force /\ SameUpToCase # {} /\ Terminal /\ error # "PersistenceFailed")
    => /\ pc = "Done"
       /\ exit_code = 0
       /\ path \in DOMAIN fs
       /\ fs[path].part = "private"
       /\ PubKeyPath(path) \in DOMAIN fs
       /\ fs[PubKeyPath(path)].part = "public"

\* C8: the steps run in program order: the directory check and both
\* existence checks before any generation, generation before any save, the
\* private-key save before the public-key save, and exit status 0 only
\* after both saves succeeded; whenever the public-key save has been
\* called, the private-key save has already succeeded.
C8_StepOrder ==
    /\ IsPrefix(log, Steps)
    /\ priv_key # NoKey
       => \A n \in {"check_dir", "check_priv", "check_pub"} : n \in Range(log)
    /\ saves # <<>> => priv_key # NoKey /\ pub_key # NoKey
    /\ \A i \in PublicSaves :
         \E j \in PrivateSaves : j < i /\ saves[j].ok
    /\ exit_code = 0
       => /\ \E j \in PrivateSaves : saves[j].ok
          /\ \E i \in PublicSaves : saves[i].ok

\* C8 witness: a successful invocation that ran every step.
C8_Witness == pc = "Done" /\ exit_code = 0 /\ log = Steps

\* C9 (as claimed): a token that differs from an advertised token only in
\* letter case or in leading and trailing whitespace is accepted.
C9_TrimmedAndCaseFolded ==
    SameUpToCaseAndBlanks # {} => error # "UnsupportedKeyType"

\* C9 (amended): the token is looked up case-insensitively but not trimmed:
\* a token that differs from an advertised token only in letter case is
\* accepted and resolves to the key that token stands for; a token with
\* leading or trailing whitespace is rejected with UnsupportedKeyType.
C9_CaseFoldedNotTrimmed ==
    /\ \A k \in SameUpToCase :
         /\ error # "UnsupportedKeyType"
         /\ pc # "parse" => key_type = k
         /\ priv_key # NoKey => priv_key = ExpectedKey(k)
    /\ (Strip(TypedToken) # TypedToken /\ pc # "parse")
       => pc = "Failed" /\ error = "UnsupportedKeyType"

\* C9 witness: the token SECP256R1 was accepted and produced a key on
\* secp256r1.
C9_Witness ==
    /\ key_type_opt = Some(Upper(Secp256r1))
    /\ priv_key = EccPrivateKey(Secp256r1)

\* C10 (as claimed): when the private-key save succeeded and the public-key
\* save failed, the invocation is in Failed with a non-zero exit status, the
\* private-key file this invocation wrote is still on disk, and no step ran
\* twice.
C10_NoRollbackNoRetry ==
    (/\ \E j \in PrivateSaves : saves[j].ok
     /\ \E i \in PublicSaves : ~saves[i].ok)
    => /\ pc = "Failed"
       /\ exit_code > 0
       /\ path \in DOMAIN fs
       /\ fs[path] = Serialized(priv_key, PasswordArg(password))
       /\ \A a, b \in DOMAIN log : log[a] = log[b] => a = b

=============================================================================
